---- MODULE Spec2Model ----
(***************************************************************************)
(* Weekly sales forecasting pipeline: clean_and_aggregate, create_features *)
(* and the recursive forecaster generate_predictions, driven either by     *)
(* generate_submission.main or by a direct call.                           *)
(*                                                                         *)
(* Representation.                                                         *)
(*  - A date is the number of days since Monday 2022-01-03 (Date below).   *)
(*  - A DataFrame is a sequence of rows; a row is a record whose field     *)
(*    "nulls" is the set of its columns that hold null (the validity mask  *)
(*    of the column store); a null cell carries the placeholder 0 / Zero.  *)
(*  - Float columns that hold quotients (prices, rolling means) are exact  *)
(*    rationals [n, d] in lowest terms.                                    *)
(***************************************************************************)
EXTENDS Integers, Sequences, FiniteSets, TLC

VARIABLES
    pc,                     \* position of the program
    artifact,               \* what is at config.PATH_MODELO_FINAL
    train_pc,               \* position of the latest run of train.py
    dados_brutos,           \* what is at config.PATH_PDV, PATH_TRANSACOES, PATH_PRODUTOS
    stdout,                 \* messages printed so far
    final_model,            \* the loaded regressor
    df_completo,            \* joined raw transactions
    df_semanal,             \* weekly aggregate before the outlier correction (its rows)
    df_semanal_corrigido,   \* result of clean_and_aggregate
    df_modelagem,           \* result of create_features
    pdv_produto_unicos,     \* selected entity pairs
    df_futuro_com_historia, \* working series of the forecast loop
    passo,                  \* number of horizon weeks already forecast
    X_previsao,             \* per step, the feature rows given to the regressor
    df_previsoes_finais,    \* per step, df_resultado_semana
    df_submissao,           \* result of generate_predictions
    output_file             \* what was written to config.PATH_OUTPUT

vars == <<pc, artifact, train_pc, dados_brutos, stdout, final_model, df_completo, df_semanal,
          df_semanal_corrigido, df_modelagem, pdv_produto_unicos,
          df_futuro_com_historia, passo, X_previsao, df_previsoes_finais,
          df_submissao, output_file>>

----------------------------------------------------------------------------
(* Generic helpers *)

Range(s) == {s[i] : i \in 1..Len(s)}

Max2(a, b) == IF a >= b THEN a ELSE b

Min2(a, b) == IF a <= b THEN a ELSE b

Abs(x) == IF x < 0 THEN -x ELSE x

RECURSIVE GCD(_, _)
GCD(a, b) == IF b = 0 THEN a ELSE GCD(b, a % b)

\* The rational n/d (d > 0) in lowest terms.
Rat(n, d) ==
    LET g == GCD(Abs(n), d) IN [n |-> n \div g, d |-> d \div g]

Zero == [n |-> 0, d |-> 1]

RatAdd(x, y) == Rat(x.n * y.d + y.n * x.d, x.d * y.d)

RECURSIVE SumSeq(_)
SumSeq(s) == IF s = <<>> THEN 0 ELSE Head(s) + SumSeq(Tail(s))

RECURSIVE RatSumSeq(_)
RatSumSeq(s) == IF s = <<>> THEN Zero ELSE RatAdd(Head(s), RatSumSeq(Tail(s)))

RECURSIVE MinSeq(_)
MinSeq(s) == IF Len(s) = 1 THEN s[1] ELSE Min2(Head(s), MinSeq(Tail(s)))

RECURSIVE MaxSeq(_)
MaxSeq(s) == IF Len(s) = 1 THEN s[1] ELSE Max2(Head(s), MaxSeq(Tail(s)))

\* Lexicographic order on integer tuples of one length.
LexLess(a, b) ==
    \E i \in 1..Len(a) : a[i] < b[i] /\ \A j \in 1..(i - 1) : a[j] = b[j]

\* s sorted by keys (keys[i] is the integer tuple of s[i]), equal keys keeping
\* their order.
SortByKeys(s, keys) ==
    LET n == Len(s)
        Rank(i) == 1 + Cardinality({j \in 1..n :
                          LexLess(keys[j], keys[i]) \/ (keys[j] = keys[i] /\ j < i)})
    IN  [p \in 1..n |-> s[CHOOSE i \in 1..n : Rank(i) = p]]

\* The sequences that list every element of the finite set I once.
RECURSIVE Arrangements(_)
Arrangements(I) ==
    IF I = {} THEN {<<>>}
    ELSE UNION {{<<i>> \o a : a \in Arrangements(I \ {i})} : i \in I}

\* DataFrame.sort (maintain_order=False): the tables that hold the rows of s
\* in the order of their keys. Rows with equal keys come out in any order,
\* whatever their order in s.
SortOutcomes(s, keys) ==
    LET n == Len(s)
        RECURSIVE From(_)
        From(placed) ==
            IF placed = 1..n THEN {<<>>}
            ELSE LET rest == (1..n) \ placed
                     m    == CHOOSE i \in rest :
                                 \A j \in rest : ~LexLess(keys[j], keys[i])
                     ties == {i \in rest : keys[i] = keys[m]}
                 IN  {a \o b : a \in Arrangements(ties), b \in From(placed \cup ties)}
    IN  {[p \in 1..n |-> s[idx[p]]] : idx \in From({})}

----------------------------------------------------------------------------
(* Calendar: datetime.date, timedelta, dt.truncate("1w"), dt.week, dt.month *)

DaysBeforeMonth == <<0, 31, 59, 90, 120, 151, 181, 212, 243, 273, 304, 334>>

\* date(y, m, d) as days since Monday 2022-01-03 (2022 and 2023: no leap year).
Date(y, m, d) == (y - 2022) * 365 + DaysBeforeMonth[m] + d - 3

Weeks(n) == 7 * n

\* dt.truncate("1w"): the Monday of the date's week.
TruncateWeek(d) == d - (d % 7)

\* dt.week(): ISO week number (2021, 2022 and 2023 all have 52 ISO weeks;
\* 2022-01-03 opens week 1 of 2022).
IsoWeek(d) == ((TruncateWeek(d) \div 7) % 52) + 1

\* dt.month()
Month(d) ==
    LET doy == ((d + 2) % 365) + 1
    IN  CHOOSE m \in 1..12 :
            /\ DaysBeforeMonth[m] < doy
            /\ (m = 12 \/ doy <= DaysBeforeMonth[m + 1])

----------------------------------------------------------------------------
(* Entity pairs *)

Pair(r) == <<r.pdv, r.produto>>

\* The finite set I of indices as an increasing sequence.
IdxSeq(I) ==
    [p \in 1..Cardinality(I) |->
        CHOOSE i \in I : Cardinality({j \in I : j < i}) = p - 1]

\* The rows of table t that are in the set keep, in table order.
Filter(t, keep) ==
    LET I == IdxSeq({i \in 1..Len(t) : t[i] \in keep})
    IN  [p \in 1..Len(I) |-> t[I[p]]]

----------------------------------------------------------------------------
(* data_processing.clean_and_aggregate *)

\* Step 1: the essential columns, renamed, without the rows that hold a null.
\* The columns of df_completo that the select of step 1 keeps.
ESSENTIAL_COLUMNS ==
    {"transaction_date", "internal_store_id", "internal_product_id", "quantity",
     "net_value"}

df_essencial(completo) ==
    LET sel == [i \in 1..Len(completo) |->
                   [data       |-> completo[i].transaction_date,
                    pdv        |-> completo[i].internal_store_id,
                    produto    |-> completo[i].internal_product_id,
                    quantidade |-> completo[i].quantity,
                    net_value  |-> completo[i].net_value,
                    nulls      |-> completo[i].nulls \cap ESSENTIAL_COLUMNS]]
    IN  Filter(sel, {r \in Range(sel) : r.nulls = {}})

\* Step 2: group_by([data.truncate("1w"), pdv, produto]).agg(sum, sum).
\* group_by (maintain_order=False) returns one row per key in no fixed order:
\* the result is held as the set of its rows, which differ in their keys.
GroupKey(r) == <<TruncateWeek(r.data), r.pdv, r.produto>>

AggregateWeekly(ess) ==
    LET Members(k) == {i \in 1..Len(ess) : GroupKey(ess[i]) = k}
        Col(k, f(_)) == LET RECURSIVE S(_)
                            S(I) == IF I = {} THEN 0
                                    ELSE LET i == CHOOSE x \in I : TRUE
                                         IN f(ess[i]) + S(I \ {i})
                        IN S(Members(k))
        Qty(r) == r.quantidade
        Net(r) == r.net_value
    IN  {[data               |-> k[1],
          pdv                |-> k[2],
          produto            |-> k[3],
          quantidade_semanal |-> Col(k, Qty),
          net_value_semanal  |-> Col(k, Net)] :
            k \in {GroupKey(ess[i]) : i \in 1..Len(ess)}}

\* The rows of a weekly aggregate listed by week and pair. The filters of
\* step 3 keep rows by value and its sort reorders them, so the listing does
\* not show in what step 3 returns.
RowsByKey(S) ==
    [p \in 1..Cardinality(S) |->
        CHOOSE r \in S :
            Cardinality({u \in S : LexLess(GroupKey(u), GroupKey(r))}) = p - 1]

data_pico == Date(2022, 9, 5)

\* timedelta(days=1) in place of timedelta(weeks=1).
data_anterior_um_dia == data_pico - 1

data_anterior == data_pico - Weeks(1)

\* with_columns(pl.lit(data_pico).alias("data"))
Relabel(t, d) == [i \in 1..Len(t) |-> [t[i] EXCEPT !.data = d]]

\* .sort("data"): rows of one week come out in any order.
SortByData(t) == SortOutcomes(t, [i \in 1..Len(t) |-> <<t[i].data>>])

\* The correction without the removal of the anomalous week's own rows.
CorrectOutlierKeepPico(semanal) ==
    LET semanal_rows == RowsByKey(semanal)
        dados_semana_anterior ==
            Filter(semanal_rows, {r \in semanal : r.data = data_anterior})
        dados_corrigidos == Relabel(dados_semana_anterior, data_pico)
    IN  SortByData(semanal_rows \o dados_corrigidos)

\* The correction that removes the anomalous week's rows only of the pairs
\* that have a row in the week before.
CorrectOutlierOnlyWithSource(semanal) ==
    LET semanal_rows == RowsByKey(semanal)
        dados_semana_anterior ==
            Filter(semanal_rows, {r \in semanal : r.data = data_anterior})
        dados_corrigidos == Relabel(dados_semana_anterior, data_pico)
        df_semanal_sem_pico ==
            Filter(semanal_rows, {r \in semanal :
                \/ r.data # data_pico
                \/ \A u \in Range(dados_semana_anterior) : Pair(u) # Pair(r)})
    IN  SortByData(df_semanal_sem_pico \o dados_corrigidos)

\* Step 3: the rows of the week before the anomalous week, relabelled to the
\* anomalous week, replace all rows of the anomalous week. The result is the
\* set of the tables the closing sort can return.
CorrectOutlier(semanal) ==
    LET semanal_rows == RowsByKey(semanal)
        dados_semana_anterior ==
            Filter(semanal_rows, {r \in semanal : r.data = data_anterior})
        dados_corrigidos == Relabel(dados_semana_anterior, data_pico)
        df_semanal_sem_pico ==
            Filter(semanal_rows, {r \in semanal : r.data # data_pico})
    IN  SortByData(df_semanal_sem_pico \o dados_corrigidos)

\* The tables clean_and_aggregate can return on df_completo.
clean_and_aggregate(completo) == CorrectOutlier(AggregateWeekly(df_essencial(completo)))

----------------------------------------------------------------------------
(* Window expressions: pl.col(c).shift(k).over(["pdv", "produto"]) and       *)
(* pl.col(c).shift(1).rolling_*(window_size=4).over(["pdv", "produto"]).     *)
(* A cell is [null, v]; a group is the rows of one pair in table order.      *)

NullCell == [null |-> TRUE, v |-> 0]

Cell(x) == [null |-> FALSE, v |-> x]

CellOf(r, col) == IF col \in r.nulls THEN NullCell ELSE Cell(r[col])

\* Indices of the rows of i's group, and i's position among them.
GroupIdx(t, i) == {j \in 1..Len(t) : Pair(t[j]) = Pair(t[i])}

PosInGroup(t, i) == Cardinality({j \in GroupIdx(t, i) : j <= i})

\* Index of the row k positions before row i in its group, 0 when there is none.
NthBefore(t, i, k) ==
    IF PosInGroup(t, i) <= k THEN 0
    ELSE CHOOSE j \in GroupIdx(t, i) : PosInGroup(t, j) = PosInGroup(t, i) - k

\* shift(k) without over: the cell k rows up in the table, whatever its pair.
ShiftWholeFrame(t, col, k, i) ==
    IF i - k < 1 THEN NullCell ELSE CellOf(t[i - k], col)

\* shift(k).over(pair) of column col, at row i.
ShiftOver(t, col, k, i) ==
    LET j == NthBefore(t, i, k)
    IN  IF j = 0 THEN NullCell ELSE CellOf(t[j], col)

ROLLING_WINDOW == 4

\* The window of rolling_*(window_size=4) at row i over the column shifted by
\* one: the shifted cells at the last 4 group positions up to i. <<>> when the
\* group has fewer than 4 positions up to i or a cell of the window is null
\* (min_periods defaults to the window size).
RollingWindowUnshifted(t, col, i) ==
    IF PosInGroup(t, i) < ROLLING_WINDOW THEN <<>>
    ELSE LET cells == [m \in 1..ROLLING_WINDOW |->
                          CellOf(t[NthBefore(t, i, ROLLING_WINDOW - m)], col)]
         IN  IF \E m \in 1..ROLLING_WINDOW : cells[m].null THEN <<>>
             ELSE [m \in 1..ROLLING_WINDOW |-> cells[m].v]

RollingWindow(t, col, i) ==
    IF PosInGroup(t, i) < ROLLING_WINDOW THEN <<>>
    ELSE LET cells == [m \in 1..ROLLING_WINDOW |->
                          ShiftOver(t, col, 1, NthBefore(t, i, ROLLING_WINDOW - m))]
         IN  IF \E m \in 1..ROLLING_WINDOW : cells[m].null THEN <<>>
             ELSE [m \in 1..ROLLING_WINDOW |-> cells[m].v]

rolling_mean(w) == IF w = <<>> THEN NullCell ELSE Cell(Rat(SumSeq(w), Len(w)))

rolling_min(w) == IF w = <<>> THEN NullCell ELSE Cell(MinSeq(w))

rolling_max(w) == IF w = <<>> THEN NullCell ELSE Cell(MaxSeq(w))

\* rolling_std is the square root of the sample variance (ddof = 1), which is
\* irrational in general: the model carries the variance,
\* (n * sum(x^2) - sum(x)^2) / (n * (n - 1)).
rolling_var(w) ==
    IF w = <<>> THEN NullCell
    ELSE LET n == Len(w)
             sq == [m \in 1..n |-> w[m] * w[m]]
         IN  Cell(Rat(n * SumSeq(sq) - SumSeq(w) * SumSeq(w), n * (n - 1)))

\* pl.col("quantidade_semanal").shift(1).rolling_mean(window_size=4).over(pair)
\* at row i of table t.
media_movel_4_semanas(t, i) == rolling_mean(RollingWindow(t, "quantidade_semanal", i))

\* The columns named in cols of the cells cs (a record of cells): values and
\* null mask of a row.
NullsOf(cs, cols) == {c \in cols : cs[c].null}

----------------------------------------------------------------------------
(* feature_engineering.create_features *)

FERIADOS_2022 == {Date(2022, 4, 21), Date(2022, 9, 7), Date(2022, 10, 12),
                  Date(2022, 11, 2), Date(2022, 11, 15)}

\* lambda d: any(abs((d + timedelta(days=i) - f).days) < 1 ...)
contem_feriado(d) ==
    \E f \in FERIADOS_2022 : \E i \in 0..6 : Abs((d + i) - f) < 1

\* net_value_semanal / when(quantidade_semanal > 0).then(quantidade_semanal).otherwise(1)
preco_medio_semanal(r) ==
    Rat(r.net_value_semanal,
        IF r.quantidade_semanal > 0 THEN r.quantidade_semanal ELSE 1)

\* Step 1a: the weekly price.
WithPrecoMedio(semanal) ==
    [i \in 1..Len(semanal) |->
        [data                |-> semanal[i].data,
         pdv                 |-> semanal[i].pdv,
         produto             |-> semanal[i].produto,
         quantidade_semanal  |-> semanal[i].quantidade_semanal,
         net_value_semanal   |-> semanal[i].net_value_semanal,
         preco_medio_semanal |-> preco_medio_semanal(semanal[i]),
         nulls               |-> {}]]

\* fill_null(strategy="mean") of a rational column given as cells: the mean of
\* the non-null cells; nothing is filled when every cell is null.
FillNullMean(cells) ==
    LET known == IdxSeq({i \in 1..Len(cells) : ~cells[i].null})
        total == RatSumSeq([p \in 1..Len(known) |-> cells[known[p]].v])
        mean  == Rat(total.n, total.d * Len(known))
    IN  IF Len(known) = 0 THEN cells
        ELSE [i \in 1..Len(cells) |-> IF cells[i].null THEN Cell(mean) ELSE cells[i]]

\* Steps 1b to 3: price lag (mean-imputed), calendar, lags, rolling mean, holiday.
FeatureTable(semanal) ==
    LET t    == WithPrecoMedio(semanal)
        lagp == FillNullMean([i \in 1..Len(t) |-> ShiftOver(t, "preco_medio_semanal", 1, i)])
    IN  [i \in 1..Len(t) |->
            LET cs == [preco_lag_1_semana    |-> lagp[i],
                       lag_1_semana          |-> ShiftOver(t, "quantidade_semanal", 1, i),
                       lag_2_semanas         |-> ShiftOver(t, "quantidade_semanal", 2, i),
                       lag_4_semanas         |-> ShiftOver(t, "quantidade_semanal", 4, i),
                       media_movel_4_semanas |-> media_movel_4_semanas(t, i)]
            IN [data                  |-> t[i].data,
                pdv                   |-> t[i].pdv,
                produto               |-> t[i].produto,
                quantidade_semanal    |-> t[i].quantidade_semanal,
                net_value_semanal     |-> t[i].net_value_semanal,
                preco_medio_semanal   |-> t[i].preco_medio_semanal,
                preco_lag_1_semana    |-> IF cs.preco_lag_1_semana.null THEN Zero
                                          ELSE cs.preco_lag_1_semana.v,
                semana_do_ano         |-> IsoWeek(t[i].data),
                mes                   |-> Month(t[i].data),
                lag_1_semana          |-> cs.lag_1_semana.v,
                lag_2_semanas         |-> cs.lag_2_semanas.v,
                lag_4_semanas         |-> cs.lag_4_semanas.v,
                media_movel_4_semanas |-> IF cs.media_movel_4_semanas.null THEN Zero
                                          ELSE cs.media_movel_4_semanas.v,
                contem_feriado        |-> contem_feriado(t[i].data),
                nulls                 |-> NullsOf(cs, DOMAIN cs)]]

\* Step 4: drop_nulls().
DropNulls(t) == Filter(t, {r \in Range(t) : r.nulls = {}})

create_features(semanal) == DropNulls(FeatureTable(semanal))

----------------------------------------------------------------------------
(* The regressor: a black box, predict(feature rows) -> one number per row.  *)
(* Raw outputs are in tenths. The regressors of the model are deterministic  *)
(* functions of the feature row.                                             *)

FEATURES == {"semana_do_ano", "mes", "lag_1_semana", "lag_2_semanas", "lag_4_semanas",
             "media_movel_4_semanas", "contem_feriado", "preco_lag_1_semana"}

EchoLag1 == [kind |-> "echo_lag_1"]

ByWeek == [kind |-> "by_week"]

Constant(t) == [kind |-> "constant", raw |-> t]

\* The lgb.LGBMRegressor that model_trainer.train_final_model saves.
LGBM == [kind |-> "lgbm"]

\* model.predict(dpredict) is handed an xgb.DMatrix: the predict of an
\* LGBMRegressor takes arrays and data frames and raises on it.
PredictRaises(model) == model.kind = "lgbm"

\* model.predict(dpredict), in tenths, for one feature row.
PredictRow(model, x) ==
    CASE model.kind = "echo_lag_1" -> 10 * x.lag_1_semana
      [] model.kind = "by_week"    -> 5 * x.semana_do_ano
      [] model.kind = "constant"   -> model.raw

Predict(model, X) == [i \in 1..Len(X) |-> PredictRow(model, X[i])]

----------------------------------------------------------------------------
(* np.expm1, np.round(...).astype(int), and the clamp *)

\* round(expm1(t / 10)) for t in 0..30 tenths, and round(expm1(k)) for k in 0..21.
Expm1RoundTenths ==
    <<0, 0, 0, 0, 1, 1, 1, 1, 1, 2, 2, 2, 3, 3, 3, 4, 4, 5, 6, 6, 7, 8, 9, 10, 11,
      12, 14, 15, 17, 19>>

Expm1RoundUnits ==
    <<2, 6, 19, 54, 147, 402, 1096, 2980, 8102, 22025, 59873, 162754, 442412,
      1202603, 3269016, 8886110, 24154952, 65659968, 178482300, 485165194,
      1318815733>>

\* expm1(x) leaves the range of int64 from x = 43.7 on (ln 2^63 = 43.668).
CAST_OVERFLOW_TENTHS == 437

\* What astype(int) leaves for a float outside int64 (inf included) is not
\* defined: the minimum of int64 on x86-64, its maximum on aarch64. The model's
\* integers are 32 bits wide; these two stand for those values.
CAST_MIN == -100000000

CAST_MAX == 100000000

\* np.round(np.expm1(raw)).astype(int) for a raw output of t tenths: the set
\* of the values a build can produce. expm1 lies in (-1, 0) below 0 and
\* reaches -0.5 at ln 0.5 = -0.693.
Expm1RoundCast(t) ==
    CASE t <= -7                   -> {-1}
      [] t > -7 /\ t <= 0          -> {0}
      [] t > 0 /\ t <= 30          -> {Expm1RoundTenths[t]}
      [] t >= CAST_OVERFLOW_TENTHS -> {CAST_MIN, CAST_MAX}
      [] OTHER                     -> {Expm1RoundUnits[IF t % 10 = 0 THEN t \div 10 ELSE 0]}

\* previsoes_arr[previsoes_arr < 0] = 0
ClampNoOp(q) == q

Clamp(q) == IF q < 0 THEN 0 ELSE q

\* The values of previsoes_arr the build can produce for the raw outputs.
PrevisoesArr(raw) ==
    LET out == UNION {Expm1RoundCast(raw[i]) : i \in 1..Len(raw)}
    IN  {[i \in 1..Len(raw) |-> Clamp(a[i])] :
            a \in {b \in [1..Len(raw) -> out] :
                      \A i \in 1..Len(raw) : b[i] \in Expm1RoundCast(raw[i])}}

----------------------------------------------------------------------------
(* predict.generate_predictions *)

SEED_CUTOFF == Date(2022, 11, 28)

semanas_jan_2023 == <<Date(2023, 1, 2), Date(2023, 1, 9), Date(2023, 1, 16),
                      Date(2023, 1, 23), Date(2023, 1, 30)>>

\* The columns of df_modelagem other than the keys.
VALUE_COLUMNS == {"quantidade_semanal", "net_value_semanal", "preco_medio_semanal",
                  "preco_lag_1_semana", "semana_do_ano", "mes", "lag_1_semana",
                  "lag_2_semanas", "lag_4_semanas", "media_movel_4_semanas",
                  "contem_feriado"}

\* A row of df_futuro: the keys, every other column of df_modelagem null.
SkeletonRow(par, semana) ==
    [data                  |-> semana,
     pdv                   |-> par.pdv,
     produto               |-> par.produto,
     quantidade_semanal    |-> 0,
     net_value_semanal     |-> 0,
     preco_medio_semanal   |-> Zero,
     preco_lag_1_semana    |-> Zero,
     semana_do_ano         |-> 0,
     mes                   |-> 0,
     lag_1_semana          |-> 0,
     lag_2_semanas         |-> 0,
     lag_4_semanas         |-> 0,
     media_movel_4_semanas |-> Zero,
     contem_feriado        |-> FALSE,
     nulls                 |-> VALUE_COLUMNS]

\* pdv_produto_unicos.join(pl.DataFrame({"data": semanas_jan_2023}), how="cross")
df_futuro(pares) ==
    LET nw == Len(semanas_jan_2023)
    IN  [p \in 1..(Len(pares) * nw) |->
            SkeletonRow(pares[((p - 1) \div nw) + 1], semanas_jan_2023[((p - 1) % nw) + 1])]

\* .sort("data", "pdv", "produto")
SortByDataPdvProduto(t) ==
    SortByKeys(t, [i \in 1..Len(t) |-> <<t[i].data, t[i].pdv, t[i].produto>>])

ultimas_semanas_2022_hist(modelagem) ==
    Filter(modelagem, {r \in Range(modelagem) : r.data > SEED_CUTOFF})

\* Sections 1 and 2: the seed rows and the skeleton, as one sorted timeline.
InitialWorkingSeries(modelagem, pares) ==
    SortByDataPdvProduto(ultimas_semanas_2022_hist(modelagem) \o df_futuro(pares))

\* pl.col("preco_lag_1_semana").fill_null(strategy="forward"): a null takes the
\* value of the nearest non-null row above it in the table.
ForwardFillPreco(t) ==
    [i \in 1..Len(t) |->
        IF "preco_lag_1_semana" \notin t[i].nulls THEN t[i]
        ELSE LET above == {j \in 1..(i - 1) : "preco_lag_1_semana" \notin t[j].nulls}
             IN  IF above = {} THEN t[i]
                 ELSE LET j == CHOOSE k \in above : \A m \in above : m <= k
                      IN [t[i] EXCEPT !.preco_lag_1_semana = t[j].preco_lag_1_semana,
                                      !.nulls = @ \ {"preco_lag_1_semana"}]]

IntOrZero(c) == IF c.null THEN 0 ELSE c.v

RatOrZero(c) == IF c.null THEN Zero ELSE c.v

\* The rolling statistics of the loop that are not in config.FEATURES
\* (lines 80 to 82), at row i of the working series t, nulls filled with 0.
RollingExtras(t, i) ==
    LET w == RollingWindow(t, "quantidade_semanal", i)
    IN  [variancia_movel_4_semanas |-> RatOrZero(rolling_var(w)),
         min_movel_4_semanas       |-> IntOrZero(rolling_min(w)),
         max_movel_4_semanas       |-> IntOrZero(rolling_max(w))]

\* The keys and the config.FEATURES columns of df_para_prever for row i of the
\* working series t: the with_columns of the loop, then fill_null(0).
FeatureRow(t, i) ==
    [data                  |-> t[i].data,
     pdv                   |-> t[i].pdv,
     produto               |-> t[i].produto,
     semana_do_ano         |-> IsoWeek(t[i].data),
     mes                   |-> Month(t[i].data),
     lag_1_semana          |-> IntOrZero(ShiftOver(t, "quantidade_semanal", 1, i)),
     lag_2_semanas         |-> IntOrZero(ShiftOver(t, "quantidade_semanal", 2, i)),
     lag_4_semanas         |-> IntOrZero(ShiftOver(t, "quantidade_semanal", 4, i)),
     media_movel_4_semanas |-> RatOrZero(media_movel_4_semanas(t, i)),
     contem_feriado        |-> FALSE,
     preco_lag_1_semana    |-> IF "preco_lag_1_semana" \in t[i].nulls THEN Zero
                               ELSE t[i].preco_lag_1_semana]

\* The filter with >= in place of ==.
df_para_prever_desde(t, semana_atual) ==
    LET I == IdxSeq({i \in 1..Len(t) : t[i].data >= semana_atual})
    IN  [p \in 1..Len(I) |-> FeatureRow(t, I[p])]

\* .filter(pl.col("data").dt.date() == semana_atual)
df_para_prever(t, semana_atual) ==
    LET I == IdxSeq({i \in 1..Len(t) : t[i].data = semana_atual})
    IN  [p \in 1..Len(I) |-> FeatureRow(t, I[p])]

\* df_para_prever.select(["data", "pdv", "produto"]).with_columns(quantidade)
df_resultado_semana(para_prever, previsoes_arr) ==
    [i \in 1..Len(para_prever) |->
        [data       |-> para_prever[i].data,
         pdv        |-> para_prever[i].pdv,
         produto    |-> para_prever[i].produto,
         quantidade |-> previsoes_arr[i]]]

SameKey(r, u) == r.data = u.data /\ r.pdv = u.pdv /\ r.produto = u.produto

\* The result of update thrown away: the working series stays as it was.
UpdateDiscarded(t, resultado) == t

\* update keyed by the pair alone: every row of a pair of the result takes the
\* quantity predicted for the pair.
UpdateByPair(t, resultado) ==
    [i \in 1..Len(t) |->
        LET M == {j \in 1..Len(resultado) : Pair(resultado[j]) = Pair(t[i])}
        IN  IF M = {} THEN t[i]
            ELSE [t[i] EXCEPT !.quantidade_semanal = resultado[CHOOSE j \in M : TRUE].quantidade,
                              !.nulls = @ \ {"quantidade_semanal"}]]

\* DataFrame.update(other, on=["data", "pdv", "produto"]): a left join on the
\* keys, the joined quantity replacing quantidade_semanal where it is matched.
RECURSIVE Update(_, _)
Update(t, resultado) ==
    IF t = <<>> THEN <<>>
    ELSE LET r == Head(t)
             M == IdxSeq({j \in 1..Len(resultado) : SameKey(r, resultado[j])})
         IN  (IF Len(M) = 0 THEN <<r>>
              ELSE [m \in 1..Len(M) |->
                       [r EXCEPT !.quantidade_semanal = resultado[M[m]].quantidade,
                                 !.nulls = @ \ {"quantidade_semanal"}]])
             \o Update(Tail(t), resultado)

RECURSIVE Concat(_)
Concat(ts) == IF ts = <<>> THEN <<>> ELSE Head(ts) \o Concat(Tail(ts))

\* Section 4: the submission table.
FormatSubmission(previsoes) ==
    LET t == Concat(previsoes)
    IN  [i \in 1..Len(t) |->
            [semana     |-> IsoWeek(t[i].data),
             pdv        |-> t[i].pdv,
             produto    |-> t[i].produto,
             quantidade |-> t[i].quantidade]]

----------------------------------------------------------------------------
(* generate_submission.main: the selection of the pairs *)

limite_de_pares == 300000

\* The rows DataFrame.head() keeps (generate_submission.py 57).
HEAD_ROWS == 5

\* group_by(["pdv", "produto"]).agg(sum(TARGET)).sort(descending).head(limit)
\* .select(["pdv", "produto"]): the tables main can select. group_by fixes no
\* order of the pairs and the sort leaves pairs of equal totals in any order.
PrioritisePairs(modelagem) ==
    LET first == IdxSeq({i \in 1..Len(modelagem) : PosInGroup(modelagem, i) = 1})
        Total(i) == LET g == IdxSeq(GroupIdx(modelagem, i))
                    IN SumSeq([p \in 1..Len(g) |-> modelagem[g[p]].quantidade_semanal])
        groups == [p \in 1..Len(first) |->
                      [pdv     |-> modelagem[first[p]].pdv,
                       produto |-> modelagem[first[p]].produto,
                       vendas_totais_2022 |-> Total(first[p])]]
        vendas_totais_por_par ==
            SortOutcomes(groups, [p \in 1..Len(groups) |->
                                     <<-groups[p].vendas_totais_2022>>])
    IN  {[p \in 1..Min2(Len(sorted), limite_de_pares) |->
            [pdv |-> sorted[p].pdv, produto |-> sorted[p].produto]] :
                sorted \in vendas_totais_por_par}

----------------------------------------------------------------------------
(* Inputs *)

ParA == [pdv |-> 1, produto |-> 1]

ParB == [pdv |-> 1, produto |-> 2]

\* Weekly histories lie on the last NumWeeks Mondays of 2022; week k of
\* 1..NumWeeks is NumWeeks - k weeks before 2022-12-26.
NumWeeks == 9

MaxHoles == 1

WeekDate(k) == Date(2022, 12, 26) - Weeks(NumWeeks - k)

\* Quantity and net value of a pair, by the number b of weeks before 2022-12-26.
QtyOf(par, b) ==
    IF par = ParA
    THEN (IF b < 6 THEN <<13, 14, 11, 9, 12, 10>>[b + 1] ELSE 6 + (b % 3))
    ELSE (2 * b + 1) % 5

NetOf(par, b) ==
    IF par = ParA THEN QtyOf(par, b) * (2 + (b % 2))
    ELSE IF QtyOf(par, b) = 0 THEN 5 ELSE QtyOf(par, b) * (4 + (b % 3))

WeeklyRow(par, k) ==
    [data               |-> WeekDate(k),
     pdv                |-> par.pdv,
     produto            |-> par.produto,
     quantidade_semanal |-> QtyOf(par, NumWeeks - k),
     net_value_semanal  |-> NetOf(par, NumWeeks - k)]

\* The weeks of a history: none, or a run 1..last that reaches the last five
\* weeks of the year, without at most MaxHoles of its inner weeks.
Runs ==
    {{}} \cup
    UNION {{(1..last) \ holes :
               holes \in {h \in SUBSET (2..(last - 1)) : Cardinality(h) <= MaxHoles}} :
           last \in (NumWeeks - 4)..NumWeeks}

HistoriesA == Runs

HistoriesB == {1..NumWeeks, 1..(NumWeeks - 1), 1..(NumWeeks - 4), {}}

\* The weekly series of pair A on weeks wa and pair B on weeks wb, as
\* clean_and_aggregate returns it: one row per pair and week, sorted by date,
\* with the row of pair A first where both have one.
WeeklySeries(wa, wb) ==
    LET a == IdxSeq(wa)
        b == IdxSeq(wb)
        t == [i \in 1..Len(a) |-> WeeklyRow(ParA, a[i])]
             \o [i \in 1..Len(b) |-> WeeklyRow(ParB, b[i])]
    IN  SortByKeys(t, [i \in 1..Len(t) |-> <<t[i].data>>])

\* The same with the row of pair B first where both have one.
WeeklySeriesBA(wa, wb) ==
    LET a == IdxSeq(wa)
        b == IdxSeq(wb)
        t == [i \in 1..Len(b) |-> WeeklyRow(ParB, b[i])]
             \o [i \in 1..Len(a) |-> WeeklyRow(ParA, a[i])]
    IN  SortByKeys(t, [i \in 1..Len(t) |-> <<t[i].data>>])

\* Pair A on four early weeks and the last one, pair B on the last five, with
\* the quantities of pair A: one week holds both pairs, and both have one
\* feature row, of the same quantity.
TiedSeries ==
    LET a == IdxSeq((1..4) \cup {NumWeeks})
        b == IdxSeq((NumWeeks - 4)..NumWeeks)
        t == [i \in 1..Len(a) |-> WeeklyRow(ParA, a[i])]
             \o [i \in 1..Len(b) |->
                    [WeeklyRow(ParA, b[i]) EXCEPT !.produto = ParB.produto]]
    IN  SortByKeys(t, [i \in 1..Len(t) |-> <<t[i].data>>])

WeeklyInputs ==
    {WeeklySeries(wa, wb) : wa \in HistoriesA, wb \in HistoriesB}
    \cup {WeeklySeriesBA(wa, 1..NumWeeks) : wa \in HistoriesB \ {{}}}

\* The scenario of six weeks 10, 12, 9, 11, 14, 13 for pair A.
ScenarioInputs == {WeeklySeries((NumWeeks - 5)..NumWeeks, wb) : wb \in Runs}

\* Raw transactions.
Tx(d, par, q, nv, nulls) ==
    [transaction_date    |-> d,
     internal_store_id   |-> par.pdv,
     internal_product_id |-> par.produto,
     quantity            |-> q,
     net_value           |-> nv,
     nulls               |-> nulls]

\* A weekly series as transactions: each weekly row split in two sales of the
\* same week (Monday and Thursday).
WeeklyAsTx(w) ==
    [p \in 1..(2 * Len(w)) |->
        LET r == w[(p + 1) \div 2]
            q1 == r.quantidade_semanal \div 2
            n1 == r.net_value_semanal \div 2
        IN  IF p % 2 = 1
            THEN Tx(r.data, r, q1, n1, {})
            ELSE Tx(r.data + 3, r, r.quantidade_semanal - q1, r.net_value_semanal - n1, {})]

MaxTx == 3

\* Transactions around the anomalous week: the week before (Monday, Thursday),
\* the anomalous week, the week after; one of them without its quantity.
TxDomain ==
    {Tx(d, par, q, q + 2, {}) :
        d \in {data_anterior, data_anterior + 3, data_pico, data_pico + Weeks(1)},
        par \in {ParA, ParB}, q \in {1, 2}}
    \cup {Tx(data_pico, ParA, 0, 3, {"quantity"})}

TxInputs == UNION {[1..n -> TxDomain] : n \in 0..MaxTx}

\* The pairs of the set S as a table, in the order of the pair keys.
PairTable(S) ==
    [p \in 1..Cardinality(S) |->
        CHOOSE x \in S :
            Cardinality({y \in S : LexLess(<<y.pdv, y.produto>>,
                                           <<x.pdv, x.produto>>)}) = p - 1]

\* Regressors whose predict takes the DMatrix: they return 0.5 per ISO week,
\* -2.0 and 0.
DMatrixRegressors == {ByWeek, Constant(-20), Constant(0)}

Regressors == DMatrixRegressors \cup {LGBM}

NoModel == [kind |-> "none"]

NoFile == [written |-> FALSE, rows |-> <<>>]

----------------------------------------------------------------------------
(* data_processing.load_and_join_data *)

\* A row of the PDV table and of the product table: the key and the other
\* columns, taken together as one value.
PdvRow(id, c) == [pdv |-> id, pdv_cols |-> c]

ProdutoRow(id, c) == [produto |-> id, produto_cols |-> c]

\* df.join(other, left_on=key, right_on=on, how="left"): every row of df once
\* for each row of other with its key, in the order of other, and once with
\* null in the columns of other when there is none (a null key matches none).
LeftJoin(df, other, key, on, cols) ==
    Concat([i \in 1..Len(df) |->
        LET M == IdxSeq({j \in 1..Len(other) :
                            key \notin df[i].nulls /\ other[j][on] = df[i][key]})
        IN  IF Len(M) = 0
            THEN <<[df[i] EXCEPT !.nulls = @ \cup {cols}] @@ (cols :> 0)>>
            ELSE [m \in 1..Len(M) |-> df[i] @@ (cols :> other[M[m]][cols])]])

\* Lines 28 to 30, on the three tables read.
load_and_join_data(dados) ==
    LeftJoin(LeftJoin(dados.df_transacoes, dados.df_pdv,
                      "internal_store_id", "pdv", "pdv_cols"),
             dados.df_produtos, "internal_product_id", "produto", "produto_cols")

\* A parquet file of the three is missing or unreadable.
NoData == [state |-> "missing", df_transacoes |-> <<>>, df_pdv |-> <<>>,
           df_produtos |-> <<>>]

\* The lookup tables: every id once; the PDV listed twice; no PDV listed and
\* product 2 not listed.
LookupTables ==
    {<< <<PdvRow(1, 7)>>, <<ProdutoRow(1, 8), ProdutoRow(2, 9)>> >>,
     << <<PdvRow(1, 7), PdvRow(1, 6)>>, <<ProdutoRow(1, 8), ProdutoRow(2, 9)>> >>,
     << <<>>, <<ProdutoRow(1, 8)>> >>}

\* Transactions at the end of 2022 or around the anomalous week: pair A alone
\* (once on two more weeks than the weekly histories, so that two feature
\* rows lie before the last four weeks), both pairs with one week in common,
\* with different and with equal totals, and single transactions.
MainInputs ==
    {WeeklyAsTx(WeeklySeries(wa, {})) : wa \in HistoriesB}
    \cup {WeeklyAsTx(WeeklySeries((-1)..NumWeeks, {}))}
    \cup {WeeklyAsTx(WeeklySeries((1..4) \cup {NumWeeks}, (NumWeeks - 4)..NumWeeks))}
    \cup {WeeklyAsTx(TiedSeries)}
    \cup UNION {[1..n -> TxDomain] : n \in 0..1}

MainData ==
    {NoData} \cup
    {[state |-> "present", df_transacoes |-> tx, df_pdv |-> l[1], df_produtos |-> l[2]] :
        tx \in MainInputs, l \in LookupTables}

\* train.py main gets as far as joblib.dump on the features of the data:
\* tune_hyperparameters splits them four weeks before the last date, and both
\* parts are fitted and squeezed to series, which takes more than one row each.
Trainable(modelagem) ==
    /\ modelagem # <<>>
    /\ LET last  == MaxSeq([i \in 1..Len(modelagem) |-> modelagem[i].data])
           corte == last - Weeks(4)
       IN  /\ Cardinality({i \in 1..Len(modelagem) : modelagem[i].data < corte}) > 1
           /\ Cardinality({i \in 1..Len(modelagem) : modelagem[i].data >= corte}) > 1

----------------------------------------------------------------------------
(* Initial states *)

InitLocals ==
    /\ stdout = <<>>
    /\ df_semanal = {}
    /\ df_modelagem = <<>>
    /\ pdv_produto_unicos = <<>>
    /\ df_futuro_com_historia = <<>>
    /\ passo = 0
    /\ X_previsao = <<>>
    /\ df_previsoes_finais = <<>>
    /\ df_submissao = <<>>
    /\ output_file = NoFile

\* generate_submission.main on an artifact that is absent, unreadable or a
\* saved model, and on raw data files that are missing or hold the tables.
Init ==
    /\ pc = "start"
    /\ artifact \in {[state |-> "absent", model |-> NoModel],
                     [state |-> "unreadable", model |-> NoModel]}
                    \cup {[state |-> "present", model |-> m] : m \in Regressors}
    /\ train_pc = "idle"
    /\ dados_brutos \in MainData
    /\ final_model = NoModel
    /\ df_completo = <<>>
    /\ df_semanal_corrigido = <<>>
    /\ InitLocals

\* clean_and_aggregate called on raw transactions.
InitAgg ==
    /\ pc = "joined"
    /\ artifact = [state |-> "absent", model |-> NoModel]
    /\ train_pc = "idle"
    /\ dados_brutos = NoData
    /\ final_model = NoModel
    /\ df_completo \in TxInputs
    /\ df_semanal_corrigido = <<>>
    /\ InitLocals

\* create_features, then generate_predictions, called on a weekly series:
\* every series with the regressors by_week and -2.0, and the series of the
\* scenario with the regressor 0 and the LGBMRegressor, which do the same on
\* every series.
InitForecast ==
    /\ pc = "aggregated"
    /\ artifact = [state |-> "absent", model |-> NoModel]
    /\ train_pc = "idle"
    /\ dados_brutos = NoData
    /\ \/ final_model \in {ByWeek, Constant(-20)} /\ df_semanal_corrigido \in WeeklyInputs
       \/ final_model \in {Constant(0), LGBM} /\ df_semanal_corrigido \in ScenarioInputs
    /\ df_completo = <<>>
    /\ InitLocals

\* The same on the six-week scenario, with the regressor that returns lag_1.
InitScenario ==
    /\ pc = "aggregated"
    /\ artifact = [state |-> "absent", model |-> NoModel]
    /\ train_pc = "idle"
    /\ dados_brutos = NoData
    /\ final_model = EchoLag1
    /\ df_completo = <<>>
    /\ df_semanal_corrigido \in ScenarioInputs
    /\ InitLocals

----------------------------------------------------------------------------
(* train.py main and model_trainer.train_final_model *)

\* train.py is a program of its own: it can be run before, while and after
\* generate_submission.main runs, any number of times, one run at a time. It
\* looks at nothing of main; the two meet at config.PATH_MODELO_FINAL only.
\* What train.py prints goes to its own standard output.
NotTraining == {"idle", "trained", "train_raised"}

\* train.py 16-26 and model_trainer.py 112-123: the raw data is read and
\* processed as main does, the hyperparameters are tuned and the
\* LGBMRegressor is fitted. On data files that are missing, or on data that
\* does not give both sides of the tuning split, an exception leaves train.py
\* before joblib.dump. Either way the model file is not touched yet.
TrainFit ==
    /\ train_pc \in NotTraining
    /\ \/ /\ dados_brutos.state # "present"
          /\ train_pc' = "train_raised"
       \/ /\ dados_brutos.state = "present"
          /\ \E semanal \in clean_and_aggregate(load_and_join_data(dados_brutos)) :
                train_pc' = IF Trainable(create_features(semanal))
                            THEN "fitted"
                            ELSE "train_raised"
    /\ UNCHANGED <<pc, artifact, dados_brutos, stdout, final_model, df_completo,
                   df_semanal, df_semanal_corrigido, df_modelagem,
                   pdv_produto_unicos, df_futuro_com_historia, passo, X_previsao,
                   df_previsoes_finais, df_submissao, output_file>>

\* model_trainer.py 126, joblib.dump opens config.PATH_MODELO_FINAL for
\* writing in place: the file is created or truncated, and until the pickle
\* is complete a joblib.load of it raises (not FileNotFoundError).
JoblibDumpOpen ==
    /\ train_pc = "fitted"
    /\ artifact' = [state |-> "unreadable", model |-> NoModel]
    /\ train_pc' = "dumping"
    /\ UNCHANGED <<pc, dados_brutos, stdout, final_model, df_completo,
                   df_semanal, df_semanal_corrigido, df_modelagem,
                   pdv_produto_unicos, df_futuro_com_historia, passo, X_previsao,
                   df_previsoes_finais, df_submissao, output_file>>

\* model_trainer.py 126-129 and train.py 28: joblib.dump completes, the file
\* holds the LGBMRegressor, and train.py ends.
TrainFinalModel ==
    /\ train_pc = "dumping"
    /\ artifact' = [state |-> "present", model |-> LGBM]
    /\ train_pc' = "trained"
    /\ UNCHANGED <<pc, dados_brutos, stdout, final_model, df_completo,
                   df_semanal, df_semanal_corrigido, df_modelagem,
                   pdv_produto_unicos, df_futuro_com_historia, passo, X_previsao,
                   df_previsoes_finais, df_submissao, output_file>>

----------------------------------------------------------------------------
(* generate_submission.main *)

LoadingLine == "Carregando modelo treinado de: modelo_lgbm_final.joblib"

\* joblib.load succeeds.
LoadModel ==
    /\ pc = "start"
    /\ artifact.state = "present"
    /\ final_model' = artifact.model
    /\ stdout' = Append(stdout, LoadingLine)
    /\ pc' = "model_loaded"
    /\ UNCHANGED <<artifact, train_pc, dados_brutos, df_completo, df_semanal,
                   df_semanal_corrigido, df_modelagem, pdv_produto_unicos,
                   df_futuro_com_historia, passo, X_previsao, df_previsoes_finais,
                   df_submissao, output_file>>

\* The except clause without its return statement.
LoadModelNotFoundNoReturn ==
    /\ pc = "start"
    /\ artifact.state = "absent"
    /\ stdout' = stdout \o
          <<LoadingLine,
            "Erro: Arquivo do modelo não encontrado em 'modelo_lgbm_final.joblib'",
            "Por favor, execute 'python train.py' primeiro para treinar e salvar o modelo.">>
    /\ pc' = "model_loaded"
    /\ UNCHANGED <<artifact, train_pc, dados_brutos, final_model, df_completo, df_semanal,
                   df_semanal_corrigido, df_modelagem, pdv_produto_unicos,
                   df_futuro_com_historia, passo, X_previsao, df_previsoes_finais,
                   df_submissao, output_file>>

\* joblib.load raises FileNotFoundError: the except clause prints and returns.
LoadModelNotFound ==
    /\ pc = "start"
    /\ artifact.state = "absent"
    /\ stdout' = stdout \o
          <<LoadingLine,
            "Erro: Arquivo do modelo não encontrado em 'modelo_lgbm_final.joblib'",
            "Por favor, execute 'python train.py' primeiro para treinar e salvar o modelo.">>
    /\ pc' = "returned"
    /\ UNCHANGED <<artifact, train_pc, dados_brutos, final_model, df_completo, df_semanal,
                   df_semanal_corrigido, df_modelagem, pdv_produto_unicos,
                   df_futuro_com_historia, passo, X_previsao, df_previsoes_finais,
                   df_submissao, output_file>>

\* joblib.load raises another exception (an unreadable or truncated file):
\* no except clause matches and the exception leaves main.
LoadModelRaises ==
    /\ pc = "start"
    /\ artifact.state = "unreadable"
    /\ stdout' = Append(stdout, LoadingLine)
    /\ pc' = "raised"
    /\ UNCHANGED <<artifact, train_pc, dados_brutos, final_model, df_completo, df_semanal,
                   df_semanal_corrigido, df_modelagem, pdv_produto_unicos,
                   df_futuro_com_historia, passo, X_previsao, df_previsoes_finais,
                   df_submissao, output_file>>

\* Line 23 and data_processing.load_and_join_data(): the three files are read
\* and joined.
LoadAndJoinData ==
    /\ pc = "model_loaded"
    /\ dados_brutos.state = "present"
    /\ df_completo' = load_and_join_data(dados_brutos)
    /\ stdout' = stdout \o
          <<"", "Recarregando e processando dados para consistência...",
            "Dados brutos carregados e unidos com sucesso.">>
    /\ pc' = "joined"
    /\ UNCHANGED <<artifact, train_pc, dados_brutos, final_model, df_semanal,
                   df_semanal_corrigido, df_modelagem, pdv_produto_unicos,
                   df_futuro_com_historia, passo, X_previsao, df_previsoes_finais,
                   df_submissao, output_file>>

\* pl.read_parquet raises: the exception leaves main after line 23 printed.
LoadAndJoinDataRaises ==
    /\ pc = "model_loaded"
    /\ dados_brutos.state = "missing"
    /\ stdout' = stdout \o
          <<"", "Recarregando e processando dados para consistência...">>
    /\ pc' = "read_raised"
    /\ UNCHANGED <<artifact, train_pc, dados_brutos, final_model, df_completo, df_semanal,
                   df_semanal_corrigido, df_modelagem, pdv_produto_unicos,
                   df_futuro_com_historia, passo, X_previsao, df_previsoes_finais,
                   df_submissao, output_file>>

CleanAndAggregate ==
    /\ pc = "joined"
    /\ df_semanal' = AggregateWeekly(df_essencial(df_completo))
    /\ df_semanal_corrigido' \in clean_and_aggregate(df_completo)
    /\ stdout' = Append(stdout, "Dados agregados para o nível semanal e outlier corrigido.")
    /\ pc' = "aggregated"
    /\ UNCHANGED <<artifact, train_pc, dados_brutos, final_model, df_completo, df_modelagem,
                   pdv_produto_unicos, df_futuro_com_historia, passo, X_previsao,
                   df_previsoes_finais, df_submissao, output_file>>

CreateFeatures ==
    /\ pc = "aggregated"
    /\ df_modelagem' = create_features(df_semanal_corrigido)
    /\ stdout' = Append(stdout, "Features de modelagem criadas com sucesso.")
    /\ pc' = "featured"
    /\ UNCHANGED <<artifact, train_pc, dados_brutos, final_model, df_completo, df_semanal,
                   df_semanal_corrigido, pdv_produto_unicos, df_futuro_com_historia,
                   passo, X_previsao, df_previsoes_finais, df_submissao, output_file>>

\* main selects the best-selling pairs of df_modelagem (lines 29 to 42).
Prioritise ==
    /\ pc = "featured"
    /\ pdv_produto_unicos' \in PrioritisePairs(df_modelagem)
    /\ stdout' = stdout \o
          <<"", "Priorizando as combinações de PDV/Produto mais relevantes...",
            "Foram selecionadas as " \o ToString(Len(pdv_produto_unicos'))
                \o " combinações mais vendidas para a previsão.",
            "Total de linhas a serem geradas: "
                \o ToString(Len(pdv_produto_unicos') * Len(semanas_jan_2023))>>
    /\ pc' = "prioritised"
    /\ UNCHANGED <<artifact, train_pc, dados_brutos, final_model, df_completo, df_semanal,
                   df_semanal_corrigido, df_modelagem, df_futuro_com_historia,
                   passo, X_previsao, df_previsoes_finais, df_submissao, output_file>>

\* A direct caller of generate_predictions passes any table of distinct pairs.
SelectPairs ==
    /\ pc = "featured"
    /\ \E S \in SUBSET {ParA, ParB} :
          pdv_produto_unicos' = PairTable(S)
    /\ pc' = "prioritised"
    /\ UNCHANGED <<artifact, train_pc, dados_brutos, stdout, final_model, df_completo,
                   df_semanal, df_semanal_corrigido, df_modelagem,
                   df_futuro_com_historia, passo, X_previsao, df_previsoes_finais,
                   df_submissao, output_file>>

----------------------------------------------------------------------------
(* predict.generate_predictions *)

\* Sections 1 and 2 up to pl.concat (lines 33 to 60) on a polars build whose
\* vertical concat does not take the columns the skeleton got from
\* pl.lit(None), of type Null, under the typed columns of the history: the
\* concat raises SchemaError, whatever the tables hold. Which of the two the
\* build does is not decided by the source; both are modelled.
PrepareForecastRaises ==
    /\ pc = "prioritised"
    /\ stdout' = stdout \o <<"", "Preparando os DataFrames para Janeiro/2023...">>
    /\ pc' = "concat_raised"
    /\ UNCHANGED <<artifact, train_pc, dados_brutos, final_model, df_completo, df_semanal,
                   df_semanal_corrigido, df_modelagem, pdv_produto_unicos,
                   df_futuro_com_historia, passo, X_previsao, df_previsoes_finais,
                   df_submissao, output_file>>

\* Sections 1 and 2 and the head of section 3 (lines 33 to 64) on a build
\* whose concat casts the skeleton's null columns to the types of the history.
PrepareForecast ==
    /\ pc = "prioritised"
    /\ df_futuro_com_historia' = InitialWorkingSeries(df_modelagem, pdv_produto_unicos)
    /\ passo' = 0
    /\ X_previsao' = <<>>
    /\ df_previsoes_finais' = <<>>
    /\ stdout' = stdout \o
          <<"", "Preparando os DataFrames para Janeiro/2023...",
            "Criando features e prevendo o futuro de forma iterativa...">>
    /\ pc' = "loop"
    /\ UNCHANGED <<artifact, train_pc, dados_brutos, final_model, df_completo, df_semanal,
                   df_semanal_corrigido, df_modelagem, pdv_produto_unicos,
                   df_submissao, output_file>>

\* One iteration of the loop (lines 66 to 114), for semanas_jan_2023[passo + 1].
ForecastStep ==
    /\ pc = "loop"
    /\ passo < Len(semanas_jan_2023)
    /\ ~PredictRaises(final_model)
    /\ LET semana_atual == semanas_jan_2023[passo + 1]
           filled       == ForwardFillPreco(df_futuro_com_historia)
           para_prever  == df_para_prever(filled, semana_atual)
           raw          == Predict(final_model, para_prever)
       IN  \E previsoes_arr \in PrevisoesArr(raw) :
              LET resultado == df_resultado_semana(para_prever, previsoes_arr)
              IN  /\ X_previsao' = Append(X_previsao, para_prever)
                  /\ df_previsoes_finais' = Append(df_previsoes_finais, resultado)
                  /\ df_futuro_com_historia' = Update(filled, resultado)
    /\ passo' = passo + 1
    /\ UNCHANGED <<pc, artifact, train_pc, dados_brutos, stdout, final_model, df_completo,
                   df_semanal, df_semanal_corrigido, df_modelagem, pdv_produto_unicos,
                   df_submissao, output_file>>

\* An iteration in which model.predict raises (lines 66 to 94): the price is
\* filled and the features are built, and the exception leaves
\* generate_predictions.
ForecastStepRaises ==
    /\ pc = "loop"
    /\ passo < Len(semanas_jan_2023)
    /\ PredictRaises(final_model)
    /\ LET semana_atual == semanas_jan_2023[passo + 1]
           filled       == ForwardFillPreco(df_futuro_com_historia)
       IN  /\ X_previsao' = Append(X_previsao, df_para_prever(filled, semana_atual))
           /\ df_futuro_com_historia' = filled
    /\ pc' = "predict_raised"
    /\ UNCHANGED <<artifact, train_pc, dados_brutos, stdout, final_model, df_completo,
                   df_semanal, df_semanal_corrigido, df_modelagem, pdv_produto_unicos,
                   passo, df_previsoes_finais, df_submissao, output_file>>

\* Section 4 (lines 116 to 131).
FinalizeForecast ==
    /\ pc = "loop"
    /\ passo = Len(semanas_jan_2023)
    /\ df_submissao' = FormatSubmission(df_previsoes_finais)
    /\ stdout' = Append(stdout, "Formatando o arquivo de submissão...")
    /\ pc' = "predicted"
    /\ UNCHANGED <<artifact, train_pc, dados_brutos, final_model, df_completo, df_semanal,
                   df_semanal_corrigido, df_modelagem, pdv_produto_unicos,
                   df_futuro_com_historia, passo, X_previsao, df_previsoes_finais,
                   output_file>>

\* main: df_submissao.write_parquet(config.PATH_OUTPUT) and the closing
\* prints. The first of them starts with the mark U+2705 and a space, which a
\* string of this module cannot hold; of the table that print(head()) draws,
\* the line of its shape is kept.
WriteOutput ==
    /\ pc = "predicted"
    /\ output_file' = [written |-> TRUE, rows |-> df_submissao]
    /\ stdout' = stdout \o
          <<"", "SUCESSO! Seu arquivo de previsão foi salvo em: previsao_final.parquet",
            "Total de linhas no arquivo final: " \o ToString(Len(df_submissao)),
            "Amostra do arquivo de submissão:",
            "shape: (" \o ToString(Min2(Len(df_submissao), HEAD_ROWS)) \o ", 4)">>
    /\ pc' = "done"
    /\ UNCHANGED <<artifact, train_pc, dados_brutos, final_model, df_completo, df_semanal,
                   df_semanal_corrigido, df_modelagem, pdv_produto_unicos,
                   df_futuro_com_historia, passo, X_previsao, df_previsoes_finais,
                   df_submissao>>

----------------------------------------------------------------------------
(* Specifications *)

Next ==
    \/ TrainFit
    \/ JoblibDumpOpen
    \/ TrainFinalModel
    \/ LoadModel
    \/ LoadModelNotFound
    \/ LoadModelRaises
    \/ LoadAndJoinData
    \/ LoadAndJoinDataRaises
    \/ CleanAndAggregate
    \/ CreateFeatures
    \/ Prioritise
    \/ PrepareForecast
    \/ PrepareForecastRaises
    \/ ForecastStep
    \/ ForecastStepRaises
    \/ FinalizeForecast
    \/ WriteOutput

Spec == Init /\ [][Next]_vars

NextAgg == CleanAndAggregate

SpecAgg == InitAgg /\ [][NextAgg]_vars

NextForecast ==
    \/ CreateFeatures
    \/ SelectPairs
    \/ PrepareForecast
    \/ PrepareForecastRaises
    \/ ForecastStep
    \/ ForecastStepRaises
    \/ FinalizeForecast

SpecForecast == InitForecast /\ [][NextForecast]_vars

\* The regressor of the scenario returns: no step of the loop raises.
NextScenario ==
    \/ CreateFeatures
    \/ SelectPairs
    \/ PrepareForecast
    \/ PrepareForecastRaises
    \/ ForecastStep
    \/ FinalizeForecast

SpecScenario == InitScenario /\ [][NextScenario]_vars

----------------------------------------------------------------------------
(* Properties of clean_and_aggregate (SpecAgg) *)

\* Indices of the rows of table t for pair p (a tuple) at date d.
RowsAt(t, p, d) == {i \in 1..Len(t) : Pair(t[i]) = p /\ t[i].data = d}

PairsOf(t) == {Pair(t[i]) : i \in 1..Len(t)}

\* The rows of pair p in table t at dates other than d, and how many there are.
RowsOffDate(t, p, d) == {t[i] : i \in {j \in 1..Len(t) : Pair(t[j]) = p /\ t[j].data # d}}

CountOffDate(t, p, d) == Cardinality({j \in 1..Len(t) : Pair(t[j]) = p /\ t[j].data # d})

\* The rows of df_semanal listed by week and pair: the statements below read
\* them by index and do not depend on the listing.
df_semanal_rows == RowsByKey(df_semanal)

Aggregated == pc = "aggregated" /\ df_completo # <<>>

\* C5: after the outlier correction, every pair that has a row in the week
\* before the anomalous week has exactly one row at the anomalous week, with
\* the prior week's quantity and net value sums, and its prior-week row is
\* still there, unchanged.
C5_SpikeEqualsPriorWeek ==
    Aggregated =>
        \A i \in 1..Len(df_semanal_rows) :
            df_semanal_rows[i].data = data_pico - Weeks(1) =>
                LET r    == df_semanal_rows[i]
                    pico == RowsAt(df_semanal_corrigido, Pair(r), data_pico)
                IN  /\ Cardinality(pico) = 1
                    /\ \A j \in pico :
                          /\ df_semanal_corrigido[j].quantidade_semanal = r.quantidade_semanal
                          /\ df_semanal_corrigido[j].net_value_semanal = r.net_value_semanal
                    /\ Cardinality({j \in 1..Len(df_semanal_corrigido) :
                                       df_semanal_corrigido[j] = r}) = 1

\* A pair had a prior-week row and an anomalous-week row with other sums.
C5_Witness ==
    /\ Aggregated
    /\ \E i, j \in 1..Len(df_semanal_rows) :
          /\ df_semanal_rows[i].data = data_pico - Weeks(1)
          /\ df_semanal_rows[j].data = data_pico
          /\ Pair(df_semanal_rows[i]) = Pair(df_semanal_rows[j])
          /\ df_semanal_rows[i].quantidade_semanal # df_semanal_rows[j].quantidade_semanal
          /\ Len(df_completo) > Len(df_semanal_rows)

NoSource(p) == RowsAt(df_semanal_rows, p, data_pico - Weeks(1)) = {}

\* C6 as stated: for a pair without a row in the week before the anomalous
\* week the correction is a no-op, its rows after are its rows before.
C6_NoOpWithoutSource ==
    Aggregated =>
        \A p \in PairsOf(df_semanal_rows) :
            NoSource(p) =>
                /\ {df_semanal_rows[i] : i \in {j \in 1..Len(df_semanal_rows) : Pair(df_semanal_rows[j]) = p}}
                   = {df_semanal_corrigido[i] :
                         i \in {j \in 1..Len(df_semanal_corrigido) :
                                   Pair(df_semanal_corrigido[j]) = p}}

\* C6 amended: for a pair without a row in the week before the anomalous week
\* no row is created: the pair has no row at the anomalous week afterwards
\* (a row it had there is removed) and its rows of the other weeks are
\* exactly those it had.
C6_NoFabricationWithoutSource ==
    Aggregated =>
        \A p \in PairsOf(df_semanal_rows) \cup PairsOf(df_semanal_corrigido) :
            NoSource(p) =>
                /\ RowsAt(df_semanal_corrigido, p, data_pico) = {}
                /\ RowsOffDate(df_semanal_corrigido, p, data_pico)
                   = RowsOffDate(df_semanal_rows, p, data_pico)
                /\ CountOffDate(df_semanal_corrigido, p, data_pico)
                   = CountOffDate(df_semanal_rows, p, data_pico)

\* A pair without a prior-week row had a row at the anomalous week and one
\* elsewhere.
C6_Witness ==
    /\ Aggregated
    /\ \E p \in PairsOf(df_semanal_rows) :
          /\ NoSource(p)
          /\ RowsAt(df_semanal_rows, p, data_pico) # {}
          /\ RowsOffDate(df_semanal_rows, p, data_pico) # {}

\* C8: the weekly series returned by clean_and_aggregate has at most one row
\* per pair and week, and every week is a Monday.
C8_OneRowPerPairWeek ==
    Aggregated =>
        \A i, j \in 1..Len(df_semanal_corrigido) :
            /\ (i # j => \/ Pair(df_semanal_corrigido[i]) # Pair(df_semanal_corrigido[j])
                         \/ df_semanal_corrigido[i].data # df_semanal_corrigido[j].data)
            /\ df_semanal_corrigido[i].data % 7 = 0

\* A pair had rows in both weeks, and a week held several transactions.
C8_Witness ==
    /\ Aggregated
    /\ \E p \in PairsOf(df_semanal_rows) :
          /\ RowsAt(df_semanal_rows, p, data_pico) # {}
          /\ RowsAt(df_semanal_rows, p, data_pico - Weeks(1)) # {}
          /\ RowsAt(df_semanal_corrigido, p, data_pico) # {}
    /\ Len(df_completo) = Len(df_semanal_rows) + 1

----------------------------------------------------------------------------
(* Properties of create_features and generate_predictions (SpecForecast) *)

NumSemanas == Len(semanas_jan_2023)

Selected == {Pair(pdv_produto_unicos[i]) : i \in 1..Len(pdv_produto_unicos)}

\* C1: the table returned by generate_predictions has one row for every
\* selected pair and horizon week, and no other row; the result of every step
\* of the loop has one row for every selected pair, at the week of the step.
C1_HorizonRowCount ==
    /\ \A k \in 1..Len(df_previsoes_finais) :
          /\ Len(df_previsoes_finais[k]) = Len(pdv_produto_unicos)
          /\ \A p \in 1..Len(pdv_produto_unicos) :
                Cardinality({i \in 1..Len(df_previsoes_finais[k]) :
                                /\ df_previsoes_finais[k][i].data = semanas_jan_2023[k]
                                /\ Pair(df_previsoes_finais[k][i])
                                       = Pair(pdv_produto_unicos[p])}) = 1
    /\ pc = "predicted" =>
          /\ Len(df_submissao) = Len(pdv_produto_unicos) * NumSemanas
          /\ \A p \in 1..Len(pdv_produto_unicos) : \A w \in 1..NumSemanas :
                Cardinality({i \in 1..Len(df_submissao) :
                                /\ df_submissao[i].semana = IsoWeek(semanas_jan_2023[w])
                                /\ Pair(df_submissao[i]) = Pair(pdv_produto_unicos[p])}) = 1

\* A forecast for two pairs, one with seed rows and one without any history.
C1_Witness ==
    /\ pc = "predicted"
    /\ Len(pdv_produto_unicos) = 2
    /\ \E p \in Selected : \A i \in 1..Len(df_modelagem) : Pair(df_modelagem[i]) # p
    /\ \E i \in 1..Len(df_modelagem) :
          Pair(df_modelagem[i]) \in Selected /\ df_modelagem[i].data > SEED_CUTOFF

\* C4: every forecast quantity is an integer and is not negative, whatever
\* the regressor returned: by_week returns 0.5, 1.0, 1.5, 2.0, 2.5 for the
\* five weeks (expm1 rounds to 1, 2, 3, 6, 11), the constant regressors
\* return -2.0 (expm1 rounds to -1, clamped to 0) and 0.
C4_NonNegativeInteger ==
    /\ \A k \in 1..Len(df_previsoes_finais) : \A i \in 1..Len(df_previsoes_finais[k]) :
          LET q == df_previsoes_finais[k][i].quantidade
          IN  /\ q \in Int
              /\ q >= 0
              /\ final_model = ByWeek => q = <<1, 2, 3, 6, 11>>[k]
              /\ final_model.kind = "constant" => q = 0
    /\ \A i \in 1..Len(df_submissao) :
          df_submissao[i].quantidade \in Int /\ df_submissao[i].quantidade >= 0

\* The regressor returned a negative number for a row and a quantity came out.
C4_Witness ==
    /\ final_model = Constant(-20)
    /\ pc = "predicted"
    /\ Len(df_submissao) > 0
    /\ PredictRow(final_model, X_previsao[1][1]) < 0

\* The value with which the properties replace a quantity.
PERTURBED == 77

SetQuantity(t, i) ==
    [t EXCEPT ![i].quantidade_semanal = PERTURBED, ![i].nulls = @ \ {"quantidade_semanal"}]

\* C7: the rolling features at week w of a pair do not depend on the pair's
\* quantity at week w or later. Static mode: for every row of df_modelagem,
\* replacing the quantity of a row of the pair at the same or a later week in
\* the weekly series leaves the rolling mean of the row as create_features
\* returned it. Forecast loop: for every row given to the regressor at the
\* last step, replacing in the working series the quantity of a row of the
\* pair at that week or later leaves its rolling mean as it was given, and its
\* rolling variance, minimum and maximum as they are.
C7_RollingExcludesCurrentWeek ==
    /\ pc = "featured" =>
          LET S == df_semanal_corrigido
          IN  \A m \in 1..Len(df_modelagem) : \A i \in 1..Len(S) :
                  (Pair(S[i]) = Pair(df_modelagem[m]) /\ S[i].data >= df_modelagem[m].data) =>
                      LET S2 == WithPrecoMedio([S EXCEPT ![i].quantidade_semanal = PERTURBED])
                          j  == CHOOSE x \in 1..Len(S) : SameKey(S[x], df_modelagem[m])
                      IN  media_movel_4_semanas(S2, j)
                              = Cell(df_modelagem[m].media_movel_4_semanas)
    /\ (pc = "loop" /\ passo >= 1) =>
          LET W == df_futuro_com_historia
              X == X_previsao[passo]
          IN  \A x \in 1..Len(X) : \A i \in 1..Len(W) :
                  (Pair(W[i]) = Pair(X[x]) /\ W[i].data >= X[x].data) =>
                      LET W2 == SetQuantity(W, i)
                          j  == CHOOSE y \in 1..Len(W) : SameKey(W[y], X[x])
                      IN  /\ FeatureRow(W2, j).media_movel_4_semanas
                                 = X[x].media_movel_4_semanas
                          /\ RollingExtras(W2, j) = RollingExtras(W, j)

\* A row of df_modelagem exists, and the last step gave the regressor a row
\* whose rolling window was complete.
C7_Witness ==
    /\ pc = "loop"
    /\ passo >= 2
    /\ df_modelagem # <<>>
    /\ \E x \in 1..Len(X_previsao[passo]) :
          X_previsao[passo][x].media_movel_4_semanas # Zero

\* The rows of table t of the pair of row r at date d.
RowsOfPairAt(t, r, d) == {j \in 1..Len(t) : Pair(t[j]) = Pair(r) /\ t[j].data = d}

\* C2: lag_1 at week w is the pair's quantity at calendar week w-1. Static
\* mode: every row create_features keeps has a row of its pair one week
\* before it in the weekly series, and its lag_1 is that row's quantity.
\* Forecast mode: the lag_1 given to the regressor is the quantity of the
\* pair's row one week before in the working series, and 0 when the working
\* series has no such row.
C2_LagIsPreviousCalendarWeek ==
    /\ \A m \in 1..Len(df_modelagem) :
          LET prev == RowsOfPairAt(df_semanal_corrigido, df_modelagem[m],
                                   df_modelagem[m].data - Weeks(1))
          IN  /\ prev # {}
              /\ \A j \in prev : df_modelagem[m].lag_1_semana
                                     = df_semanal_corrigido[j].quantidade_semanal
    /\ \A k \in 1..Len(X_previsao) : \A x \in 1..Len(X_previsao[k]) :
          LET r    == X_previsao[k][x]
              prev == RowsOfPairAt(df_futuro_com_historia, r, r.data - Weeks(1))
          IN  IF prev = {} THEN r.lag_1_semana = 0
              ELSE \A j \in prev :
                      r.lag_1_semana = df_futuro_com_historia[j].quantidade_semanal

\* C3: in the scenario (pair A sold 10, 12, 9, 11, 14, 13 in the last six
\* weeks, the regressor returns the lag_1 it is given), the forecasts of
\* pair A for the first two horizon weeks are 13 and 13.
C3_ScenarioForecast ==
    (pc = "loop" /\ passo >= 2 /\ <<ParA.pdv, ParA.produto>> \in Selected) =>
        \A k \in 1..2 : \A i \in 1..Len(df_previsoes_finais[k]) :
            Pair(df_previsoes_finais[k][i]) = <<ParA.pdv, ParA.produto>> =>
                df_previsoes_finais[k][i].quantidade = 13

\* The rows of the working series that came from the history.
SeedRows(t, r) ==
    {j \in 1..Len(t) : Pair(t[j]) = Pair(r) /\ t[j].data < semanas_jan_2023[1]}

\* C10: after a step of the loop, the lagged price of every future row of the
\* working series is the lagged price of the latest history row of the same
\* pair, and stays unknown when the pair has no history row.
C10_PriceFilledWithinPair ==
    (pc = "loop" /\ passo >= 1) =>
        LET W == df_futuro_com_historia
        IN  \A i \in 1..Len(W) :
                W[i].data >= semanas_jan_2023[1] =>
                    LET seeds == SeedRows(W, W[i])
                    IN  IF seeds = {} THEN "preco_lag_1_semana" \in W[i].nulls
                        ELSE LET j == CHOOSE s \in seeds :
                                         \A o \in seeds : W[o].data <= W[s].data
                             IN  /\ "preco_lag_1_semana" \notin W[i].nulls
                                 /\ W[i].preco_lag_1_semana = W[j].preco_lag_1_semana

----------------------------------------------------------------------------
(* Properties of generate_submission.main (Spec) *)

Instruction ==
    "Por favor, execute 'python train.py' primeiro para treinar e salvar o modelo."

Printed(line) == \E i \in 1..Len(stdout) : stdout[i] = line

Aborted ==
    /\ pc \in {"returned", "raised"}
    /\ df_completo = <<>>
    /\ passo = 0
    /\ df_futuro_com_historia = <<>>
    /\ X_previsao = <<>>
    /\ df_previsoes_finais = <<>>
    /\ df_submissao = <<>>
    /\ output_file = NoFile

\* joblib.load was called and gave main no model.
LoadFailed == pc # "start" /\ final_model = NoModel

\* C9 as stated: whenever joblib.load fails, main ends without calling
\* generate_predictions and without writing the output, and has printed the
\* instruction to run the training first.
C9_LoadFailureAbortsWithInstruction ==
    LoadFailed => (Aborted /\ Printed(Instruction))

\* What is at config.PATH_MODELO_FINAL decides how joblib.load ends: an absent
\* file sends main to the except clause and its return, a file that cannot be
\* unpickled makes the exception leave main, a saved model is loaded.
LoadOutcome ==
    (pc = "start" /\ pc' # "start") =>
        /\ artifact.state = "absent" => pc' = "returned" /\ final_model' = NoModel
        /\ artifact.state = "unreadable" => pc' = "raised" /\ final_model' = NoModel
        /\ artifact.state = "present" =>
              pc' = "model_loaded" /\ final_model' = artifact.model

\* C9: whenever joblib.load fails, main ends without calling
\* generate_predictions and without writing the output; the instruction to run
\* the training first is printed when the failure is FileNotFoundError (the
\* file is absent at the load), and any other exception (a file that cannot
\* be unpickled, one that train.py is still writing included) leaves main
\* without it. Runs of train.py before, during or after main change the file
\* but nothing of a main that has failed.
C9_LoadFailureAborts ==
    /\ [](LoadFailed =>
            /\ Aborted
            /\ Printed(Instruction) <=> pc = "returned")
    /\ []((pc \notin {"start", "returned", "raised"}) => final_model # NoModel)
    /\ [][LoadOutcome]_vars

\* The artifact is absent and main has returned.
C9_Witness ==
    /\ artifact.state = "absent"
    /\ pc = "returned"
    /\ Printed(Instruction)

----------------------------------------------------------------------------
(* Properties of the loop of generate_predictions (SpecForecast) *)

\* The quantity the step for the k-th horizon week put out for the pair of
\* row r.
OutputAt(k, r) ==
    LET res == df_previsoes_finais[k]
        i   == CHOOSE j \in 1..Len(res) : Pair(res[j]) = Pair(r)
    IN  res[i].quantidade

\* C11: the steps run in increasing week order and each sees the outputs of
\* the steps before it. The rows given to the regressor at the latest step k
\* are those of the k-th horizon week, later than the week of step k-1; for
\* k > 1 their lag_1 is the quantity step k-1 put out for the pair, for k > 2
\* their lag_2 is the output of step k-2, and for k > 4 their lag_4 is the
\* output of step k-4.
C11_LagsChainOverSteps ==
    (pc = "loop" /\ passo >= 1) =>
        LET k == passo
            X == X_previsao[k]
        IN  /\ Len(X_previsao) = k
            /\ Len(df_previsoes_finais) = k
            /\ k > 1 => semanas_jan_2023[k] > semanas_jan_2023[k - 1]
            /\ \A x \in 1..Len(X) :
                  /\ X[x].data = semanas_jan_2023[k]
                  /\ k > 1 => X[x].lag_1_semana = OutputAt(k - 1, X[x])
                  /\ k > 2 => X[x].lag_2_semanas = OutputAt(k - 2, X[x])
                  /\ k > 4 => X[x].lag_4_semanas = OutputAt(k - 4, X[x])

\* The fifth step ran for a selected pair with a regressor whose outputs
\* differ from week to week, and its lags are outputs of earlier steps.
C11_Witness ==
    /\ pc = "loop"
    /\ passo = 5
    /\ final_model = ByWeek
    /\ \E x \in 1..Len(X_previsao[5]) :
          /\ X_previsao[5][x].lag_1_semana = 6
          /\ X_previsao[5][x].lag_2_semanas = 3
          /\ X_previsao[5][x].lag_4_semanas = 1

QuantityKnown(r) == "quantidade_semanal" \notin r.nulls

\* C12: the write-back of a step is an upsert keyed by pair and week. Across
\* the step for horizon week h the working series keeps its rows and their
\* keys; every selected pair has a row at h, the rows at h are rows of selected
\* pairs and take the quantity the step put out for their pair; the quantity
\* of every other row, known or unknown, is what it was; the seed rows are
\* unchanged in every column.
C12_WriteBackIsUpsert ==
    [][passo' = passo + 1 =>
          LET W  == df_futuro_com_historia
              W2 == df_futuro_com_historia'
              h  == semanas_jan_2023[passo']
              res == df_previsoes_finais'[passo']
          IN  /\ Len(W2) = Len(W)
              /\ \A p \in 1..Len(pdv_produto_unicos) :
                    Cardinality({i \in 1..Len(W) :
                                    /\ W[i].data = h
                                    /\ Pair(W[i]) = Pair(pdv_produto_unicos[p])}) = 1
              /\ \A i \in 1..Len(W) :
                    /\ SameKey(W2[i], W[i])
                    /\ IF W[i].data = h
                       THEN /\ Pair(W[i]) \in Selected
                            /\ ~QuantityKnown(W[i])
                            /\ QuantityKnown(W2[i])
                            /\ \E j \in 1..Len(res) :
                                  /\ SameKey(res[j], W[i])
                                  /\ W2[i].quantidade_semanal = res[j].quantidade
                       ELSE /\ QuantityKnown(W2[i]) = QuantityKnown(W[i])
                            /\ W2[i].quantidade_semanal = W[i].quantidade_semanal
                    /\ W[i].data < semanas_jan_2023[1] => W2[i] = W[i]
    ]_vars

\* A step has written its quantities into a working series that holds seed
\* rows, rows of earlier steps and rows of later weeks still unknown.
C12_Witness ==
    /\ pc = "loop"
    /\ passo \in 2..4
    /\ LET W == df_futuro_com_historia
       IN  /\ \E i \in 1..Len(W) : W[i].data < semanas_jan_2023[1]
           /\ \E i \in 1..Len(W) :
                 W[i].data = semanas_jan_2023[passo] /\ QuantityKnown(W[i])
           /\ \E i \in 1..Len(W) :
                 W[i].data = semanas_jan_2023[passo + 1] /\ ~QuantityKnown(W[i])

\* The rows given to the regressor at step k for pairs without a seed row.
NoSeedRows(k) ==
    {x \in 1..Len(X_previsao[k]) :
        SeedRows(df_futuro_com_historia, X_previsao[k][x]) = {}}

\* A selected pair has no row in the seed.
SelectedWithoutSeed ==
    \E p \in Selected :
        \A i \in 1..Len(df_modelagem) :
            Pair(df_modelagem[i]) = p => df_modelagem[i].data <= SEED_CUTOFF

\* C13 as stated: with a selected pair without seed rows the loop never
\* raises, and at every step all lag and rolling features given to the
\* regressor for such a pair are zero.
C13_NoSeedNeverRaisesFeaturesZero ==
    /\ SelectedWithoutSeed => pc # "predict_raised"
    /\ \A k \in 1..Len(X_previsao) : \A x \in NoSeedRows(k) :
          LET r == X_previsao[k][x]
          IN  /\ r.lag_1_semana = 0
              /\ r.lag_2_semanas = 0
              /\ r.lag_4_semanas = 0
              /\ r.media_movel_4_semanas = Zero

\* The quantity step k - j put out for the pair of row r, 0 when step k - j
\* is before the first.
OutputBack(k, j, r) == IF k > j THEN OutputAt(k - j, r) ELSE 0

\* What the loop does for C13's pairs where the regressor's predict returns:
\* for a selected pair without seed rows the features hold nothing but the
\* pair's own earlier forecasts. At the first step all lag and rolling
\* features are zero; at step k, lag_j is zero while k <= j and the quantity
\* put out for the pair at step k - j after that; the rolling mean is zero at
\* steps 1 to 4 and the mean of the first four forecasts of the pair at
\* step 5.
C13_NoSeedFeaturesFromOwnForecasts ==
    \A k \in 1..Len(X_previsao) : \A x \in NoSeedRows(k) :
        LET r == X_previsao[k][x]
        IN  /\ r.lag_1_semana = OutputBack(k, 1, r)
            /\ r.lag_2_semanas = OutputBack(k, 2, r)
            /\ r.lag_4_semanas = OutputBack(k, 4, r)
            /\ r.media_movel_4_semanas =
                  IF k <= ROLLING_WINDOW THEN Zero
                  ELSE Rat(OutputAt(k - 1, r) + OutputAt(k - 2, r)
                              + OutputAt(k - 3, r) + OutputAt(k - 4, r),
                           ROLLING_WINDOW)

\* The loop ran to its last step for a selected pair without seed rows, with
\* forecasts that are not zero.
C13_Witness ==
    /\ pc = "loop"
    /\ passo = NumSemanas
    /\ final_model = ByWeek
    /\ \E x \in NoSeedRows(NumSemanas) :
          /\ X_previsao[NumSemanas][x].lag_1_semana = 6
          /\ X_previsao[NumSemanas][x].media_movel_4_semanas = Rat(12, 4)

====
